---- MODULE Spec2Model ----
(***************************************************************************)
(* A model of rustHTTP (src/src/main.rs): the query-string parser          *)
(* ImageOptions::from_query, the disk cache ImageCache (get_cached/store   *)
(* on top of std::fs), and the request handler serve_file driven by the    *)
(* sequential accept loop of main.                                         *)
(*                                                                         *)
(* Strings are sequences of one-character strings; Option<T> is a sequence *)
(* of length 0 (None) or 1 (Some).                                         *)
(***************************************************************************)
EXTENDS Integers, Sequences, FiniteSets, TLC

VARIABLES
    \* ---- ImageOptions::from_query, one call ----
    query,      \* the &str argument
    params,     \* the collected Vec<(String, String)>
    pos,        \* how many elements of params the for loop has consumed
    opts,       \* the local `opts`
    prevOpts,   \* `opts` as it was before the last loop iteration (history)
    fqpc,       \* position inside from_query: "split", "loop", "done", "off"
    \* ---- the cache directory and the calls of ImageCache in progress ----
    files,      \* cache_dir: key -> the entry at cache_dir.join(key)
    now,        \* SystemTime::now(), in seconds
    call,       \* thread -> its get_cached/store call: arguments, position, locals
    blobOf,     \* key -> the bytes computed for that key (fixed by Init)
    stored,     \* key -> a store of that key has returned Ok (history)
    wfail,      \* key -> a store of that key failed after opening the file (history)
    fresh,      \* key -> the last store step for that key was a store returning
                \*        Ok that no other store overlapped (history)
    wroteAt,    \* key -> when a store last created or wrote the file (history)
    \* ---- main, handle_request and serve_file ----
    spc,        \* where the thread of main is: "accept", "serve", "new_cache",
                \* "lookup", "storing", "panicked"
    req,        \* the arguments of the serve_file call in progress
    options,    \* the local `options` of serve_file
    cacheDirExists,  \* cache/images exists
    resp,       \* the last response written to a stream, with what led to it
    memo,       \* key -> the response and entry time of the last fetch of that
                \*        key that missed, transformed and stored (history)
    failedLast, \* key -> the last fetch of that key could not store (history)
    \* ---- one call of cache_key or of optimize_image on its own ----
    fnIn,       \* the arguments
    fnOut,      \* what the call returned
    fnPc        \* "call" before the call, "done" after it, "off"

parseVars == <<query, params, pos, opts, prevOpts, fqpc>>
cacheVars == <<files, now, call, blobOf, stored, wfail, fresh, wroteAt>>

serverVars == <<spc, req, options, cacheDirExists, resp, memo, failedLast>>

pureVars == <<fnIn, fnOut, fnPc>>

\* what the steps of a cache call leave alone, and what from_query leaves alone
nonCacheVars == <<parseVars, serverVars, pureVars>>
nonParseVars == <<cacheVars, serverVars, pureVars>>

vars == <<parseVars, cacheVars, serverVars, pureVars>>

-----------------------------------------------------------------------------
(* Bounds *)

\* the most '&'-separated parameters of a query string
MaxPairs == 2

\* the length of a cached blob, in bytes
DataLen == 2

\* the threads that call get_cached and store concurrently
NumProcs == 2

\* the clock readings on either side of the instants 0 and max_age
MaxTicks == 1

-----------------------------------------------------------------------------
(* Option and strings *)

None == <<>>
Some(x) == <<x>>
IsSome(o) == Len(o) = 1
Unwrap(o) == o[1]

Min(a, b) == IF a <= b THEN a ELSE b

\* u8::MAX and u32::MAX in decimal, the ranges of value.parse::<u8>() and of
\* value.parse() into the Option<u32> fields. They are kept as digit strings:
\* u32::MAX is beyond the integers of the model checker, so overflow is decided
\* on the digits (inputs between 2^31 and 2^32 are not drawn)
U8MaxDigits == <<"2", "5", "5">>
U32MaxDigits == <<"4", "2", "9", "4", "9", "6", "7", "2", "9", "5">>

Digits == {"0", "1", "2", "3", "4", "5", "6", "7", "8", "9"}

DigitVal(c) ==
    CASE c = "0" -> 0 [] c = "1" -> 1 [] c = "2" -> 2 [] c = "3" -> 3
      [] c = "4" -> 4 [] c = "5" -> 5 [] c = "6" -> 6 [] c = "7" -> 7
      [] c = "8" -> 8 [] c = "9" -> 9

AllDigits(s) == \A i \in 1..Len(s) : s[i] \in Digits

RECURSIVE StripZeros(_)
StripZeros(s) ==
    IF s # <<>> /\ Head(s) = "0" THEN StripZeros(Tail(s)) ELSE s

RECURSIVE DigitsGreater(_, _)
\* a > b for digit strings of equal length
DigitsGreater(a, b) ==
    IF a = <<>> THEN FALSE
    ELSE IF DigitVal(Head(a)) # DigitVal(Head(b))
         THEN DigitVal(Head(a)) > DigitVal(Head(b))
    ELSE DigitsGreater(Tail(a), Tail(b))

\* the number a digit string denotes exceeds the one maxDigits denotes
ExceedsMax(s, maxDigits) ==
    LET t == StripZeros(s)
    IN  \/ Len(t) > Len(maxDigits)
        \/ Len(t) = Len(maxDigits) /\ DigitsGreater(t, maxDigits)

RECURSIVE DecimalValue(_, _)
\* the number a digit string denotes
DecimalValue(s, acc) ==
    IF s = <<>> THEN acc
    ELSE DecimalValue(Tail(s), acc * 10 + DigitVal(Head(s)))

\* str::parse::<uN>().ok(): the empty string and a lone sign are errors, one
\* leading '+' is accepted, '-' and every other non-digit is an invalid digit
\* of an unsigned type, and a value above the type's MAX overflows
ParseUnsigned(s, maxDigits) ==
    IF s = <<>> THEN None
    ELSE LET body == IF Head(s) = "+" THEN Tail(s) ELSE s
         IN  IF body = <<>> \/ ~AllDigits(body) \/ ExceedsMax(body, maxDigits)
             THEN None
             ELSE Some(DecimalValue(body, 0))

RECURSIVE SplitFrom(_, _, _)
SplitFrom(s, c, cur) ==
    IF s = <<>> THEN <<cur>>
    ELSE IF Head(s) = c THEN <<cur>> \o SplitFrom(Tail(s), c, <<>>)
    ELSE SplitFrom(Tail(s), c, Append(cur, Head(s)))

\* str::split(c) collected: the pieces between the occurrences of c
Split(s, c) == SplitFrom(s, c, <<>>)

-----------------------------------------------------------------------------
(* ImageOutputFormat and ImageOptions *)

Jpeg(q) == [tag |-> "Jpeg", q |-> q]
Png == [tag |-> "Png"]
WebP == [tag |-> "WebP"]

IsJpeg(f) == f.tag = "Jpeg"

\* the `let mut opts = ImageOptions { .. }` of from_query
DefaultOptions ==
    [width |-> None, height |-> None, quality |-> 80, format |-> Jpeg(80)]

RECURSIVE FilterPairsKeepBare(_)
FilterPairsKeepBare(ps) ==
    IF ps = <<>> THEN <<>>
    ELSE LET parts == Split(Head(ps), "=")
         IN  << <<parts[1], IF Len(parts) >= 2 THEN parts[2] ELSE <<>> >> >>
                 \o FilterPairsKeepBare(Tail(ps))

RECURSIVE FilterPairs(_)
\* the filter_map closure: parts.next()? for the key, parts.next()? for the
\* value; a parameter without '=' is dropped, parts after the second ignored
FilterPairs(ps) ==
    IF ps = <<>> THEN <<>>
    ELSE LET parts == Split(Head(ps), "=")
         IN  (IF Len(parts) >= 2 THEN << <<parts[1], parts[2]>> >> ELSE <<>>)
                 \o FilterPairs(Tail(ps))

\* the `params` vector of from_query
QueryParams(q) == FilterPairs(Split(q, "&"))

KeyW == <<"w">>
KeyWidth == <<"w", "i", "d", "t", "h">>
KeyH == <<"h">>
KeyHeight == <<"h", "e", "i", "g", "h", "t">>
KeyQ == <<"q">>
KeyQuality == <<"q", "u", "a", "l", "i", "t", "y">>
KeyFmt == <<"f", "m", "t">>

\* the parameter "key=value"
KeyValue(k, v) == k \o <<"=">> \o v

ValJpg == <<"j", "p", "g">>
ValJpeg == <<"j", "p", "e", "g">>
ValPng == <<"p", "n", "g">>
ValWebp == <<"w", "e", "b", "p">>

ApplyQualityNoMirror(o, value) ==
    LET q == ParseUnsigned(value, U8MaxDigits)
    IN  IF IsSome(q) THEN [o EXCEPT !.quality = Min(Unwrap(q), 100)] ELSE o

ApplyQualityNoClamp(o, value) ==
    LET q == ParseUnsigned(value, U8MaxDigits)
    IN  IF IsSome(q)
        THEN [o EXCEPT !.quality = Unwrap(q),
                       !.format = IF IsJpeg(o.format) THEN Jpeg(Unwrap(q))
                                  ELSE o.format]
        ELSE o

\* the "q" | "quality" arm
ApplyQuality(o, value) ==
    LET q == ParseUnsigned(value, U8MaxDigits)
    IN  IF IsSome(q)
        THEN LET quality == Min(Unwrap(q), 100)
             IN  [o EXCEPT !.quality = quality,
                           !.format = IF IsJpeg(o.format) THEN Jpeg(quality)
                                      ELSE o.format]
        ELSE o

ApplyFormatDefaultQuality(o, value) ==
    IF value \in {ValJpg, ValJpeg} THEN [o EXCEPT !.format = Jpeg(80)]
    ELSE IF value = ValPng THEN [o EXCEPT !.format = Png]
    ELSE IF value = ValWebp THEN [o EXCEPT !.format = WebP]
    ELSE o

\* the "fmt" arm
ApplyFormat(o, value) ==
    IF value \in {ValJpg, ValJpeg} THEN [o EXCEPT !.format = Jpeg(o.quality)]
    ELSE IF value = ValPng THEN [o EXCEPT !.format = Png]
    ELSE IF value = ValWebp THEN [o EXCEPT !.format = WebP]
    ELSE o

\* the "w" | "width" and "h" | "height" arms
ApplyWidth(o, value) == [o EXCEPT !.width = ParseUnsigned(value, U32MaxDigits)]
ApplyHeight(o, value) == [o EXCEPT !.height = ParseUnsigned(value, U32MaxDigits)]

\* one iteration of `for (key, value) in params`: the match on key
ApplyParam(o, key, value) ==
    IF key \in {KeyW, KeyWidth} THEN ApplyWidth(o, value)
    ELSE IF key \in {KeyH, KeyHeight} THEN ApplyHeight(o, value)
    ELSE IF key \in {KeyQ, KeyQuality} THEN ApplyQuality(o, value)
    ELSE IF key = KeyFmt THEN ApplyFormat(o, value)
    ELSE o

RECURSIVE FoldParams(_, _)
FoldParams(o, ps) ==
    IF ps = <<>> THEN o
    ELSE FoldParams(ApplyParam(o, Head(ps)[1], Head(ps)[2]), Tail(ps))

\* ImageOptions::from_query as a function of its argument
from_query(q) == FoldParams(DefaultOptions, QueryParams(q))

-----------------------------------------------------------------------------
(* The file system under cache_dir, and time *)

\* ImageCache::new(PathBuf::from("cache/images"), 7): max_age in seconds
max_age_days == 7
max_age == 60 * 60 * 24 * max_age_days

\* the clock readings of the model: around 0 and around max_age
Times == (0..MaxTicks) \cup {max_age + t : t \in 0..MaxTicks}

Bytes == {1, 2}
\* the byte strings a transform produces; 0 is the byte of a hole
Blobs == [1..DataLen -> Bytes]

NoFile == [kind |-> "none", data |-> <<>>, mtime |-> 0]
RegularFile(d, t) == [kind |-> "file", data |-> d, mtime |-> t]
\* an entry that fs::metadata can stat and neither fs::read nor fs::write can
\* open: a directory of that name
Directory(t) == [kind |-> "dir", data |-> <<>>, mtime |-> t]

Zeros(n) == [i \in 1..n |-> 0]

FileAppend(data, off, chunk) == data \o chunk

\* write(2) of chunk at offset off (the descriptor is not O_APPEND): the bytes
\* before off are kept, a gap is filled with zeros, the bytes behind the chunk stay
FileWrite(data, off, chunk) ==
    LET head == IF Len(data) >= off THEN SubSeq(data, 1, off)
                ELSE data \o Zeros(off - Len(data))
        tail == SubSeq(data, off + Len(chunk) + 1, Len(data))
    IN  head \o chunk \o tail

\* File::create: O_WRONLY | O_CREAT | O_TRUNC
FileCreate(t) == RegularFile(<<>>, t)

\* no serve_file call in progress, and no response written yet
\* (before: the cache directory as it was when the call began, history)
NoRequest == [path |-> <<>>, query |-> None, accepts_gzip |-> FALSE, before |-> <<>>]
NoResponse == [status |-> 0]

Threads == 0..NumProcs
\* thread 0 is the thread of main; the others call the cache directly
Workers == 1..NumProcs

IdleCall ==
    [op |-> "idle", pc |-> "idle", key |-> <<>>, data |-> <<>>, off |-> 0,
     buf |-> <<>>, modified |-> 0, nowAt |-> 0, ret |-> None, ok |-> TRUE,
     clean |-> TRUE, snap |-> NoFile]

\* a store that has opened (truncated) the file of key k and not yet returned
Writing(c, k) == c.op = "store" /\ c.key = k /\ c.pc = "write"
NoWriter(k) == \A q \in Threads : ~Writing(call[q], k)

\* history: another store touches the file of key k while a store has it open,
\* or during a get_cached of k, or before the caller has looked at the result
Disturbed(c, k) ==
    IF c.key = k /\ (c.op = "get" \/ Writing(c, k))
    THEN [c EXCEPT !.clean = FALSE, !.snap = NoFile]
    ELSE c

StoreCall(k, d) ==
    [IdleCall EXCEPT !.op = "store", !.pc = "open", !.key = k, !.data = d]

GetCall(k) ==
    [IdleCall EXCEPT !.op = "get", !.pc = "metadata", !.key = k,
                     !.clean = NoWriter(k),
                     !.snap = IF NoWriter(k) THEN files[k] ELSE NoFile]

-----------------------------------------------------------------------------
(* ImageCache::store: fs::write(path, data) = File::create(path)?.write_all(data) *)

\* write_all returns Ok once every byte of the buffer has been written
WriteOnceDone(c) == c.off >= 1 \/ Len(c.data) = 0
WriteAllDone(c) == c.off = Len(c.data)

\* File::create succeeds: the file exists, is empty, and its mtime is now
StoreOpen(p) ==
    /\ call[p].op = "store" /\ call[p].pc = "open"
    /\ LET k == call[p].key
       IN  /\ files[k].kind # "dir"
           /\ files' = [files EXCEPT ![k] = FileCreate(now)]
           /\ call' = [q \in Threads |->
                          IF q = p
                          THEN [call[p] EXCEPT !.pc = "write", !.off = 0,
                                               !.clean = NoWriter(k)]
                          ELSE Disturbed(call[q], k)]
           /\ fresh' = [fresh EXCEPT ![k] = FALSE]
           /\ wroteAt' = [wroteAt EXCEPT ![k] = now]
    /\ UNCHANGED <<now, blobOf, stored, wfail, nonCacheVars>>

\* File::create fails (a directory of that name, permissions, ...): Err, and
\* nothing has changed
StoreOpenFail(p) ==
    /\ call[p].op = "store" /\ call[p].pc = "open"
    /\ call' = [call EXCEPT ![p].pc = "done", ![p].ok = FALSE]
    /\ UNCHANGED <<files, wroteAt, now, blobOf, stored, wfail, fresh, nonCacheVars>>

\* one write(2) of write_all: some n >= 1 of the remaining bytes are written
StoreWrite(p) ==
    /\ call[p].op = "store" /\ call[p].pc = "write"
    /\ call[p].off < Len(call[p].data)
    /\ \E n \in 1..(Len(call[p].data) - call[p].off) :
         LET k == call[p].key
             chunk == SubSeq(call[p].data, call[p].off + 1, call[p].off + n)
         IN  /\ files' = [files EXCEPT
                   ![k] = RegularFile(FileWrite(files[k].data, call[p].off, chunk),
                                      now)]
             /\ call' = [q \in Threads |->
                            IF q = p THEN [call[p] EXCEPT !.off = call[p].off + n]
                            ELSE Disturbed(call[q], k)]
             /\ fresh' = [fresh EXCEPT ![k] = FALSE]
           /\ wroteAt' = [wroteAt EXCEPT ![k] = now]
    /\ UNCHANGED <<now, blobOf, stored, wfail, nonCacheVars>>

\* a write(2) of write_all fails (disk full, quota, I/O error): Err, and the
\* file keeps what was written so far
StoreWriteFail(p) ==
    /\ call[p].op = "store" /\ call[p].pc = "write"
    /\ call[p].off < Len(call[p].data)
    /\ call' = [call EXCEPT ![p].pc = "done", ![p].ok = FALSE, ![p].off = 0]
    /\ wfail' = [wfail EXCEPT ![call[p].key] = TRUE]
    /\ fresh' = [fresh EXCEPT ![call[p].key] = FALSE]
    /\ UNCHANGED <<files, wroteAt, now, blobOf, stored, nonCacheVars>>

\* write_all has written everything: Ok(())
StoreReturn(p) ==
    /\ call[p].op = "store" /\ call[p].pc = "write"
    /\ WriteAllDone(call[p])
    /\ LET k == call[p].key
       IN  /\ stored' = [stored EXCEPT ![k] = TRUE]
           /\ fresh' = [fresh EXCEPT ![k] = call[p].clean]
    /\ call' = [call EXCEPT ![p].pc = "done", ![p].ok = TRUE, ![p].off = 0]
    /\ UNCHANGED <<files, wroteAt, now, blobOf, wfail, nonCacheVars>>

-----------------------------------------------------------------------------
(* ImageCache::get_cached *)

\* the condition of `if let Ok(age) = now.duration_since(modified)` and
\* `if age <= self.max_age`
AgeOkStrict(t, modified) == t >= modified /\ t - modified < max_age
AgeOkSigned(t, modified) == t - modified <= max_age
AgeOk(t, modified) == t >= modified /\ t - modified <= max_age

\* fs::metadata(&path) and metadata.modified()
GetMetadata(p) ==
    /\ call[p].op = "get" /\ call[p].pc = "metadata"
    /\ LET k == call[p].key
       IN  call' = [call EXCEPT
              ![p] = IF files[k].kind = "none"
                     THEN [@ EXCEPT !.pc = "done", !.ret = None]
                     ELSE [@ EXCEPT !.pc = "age", !.modified = files[k].mtime]]
    /\ UNCHANGED <<files, wroteAt, now, blobOf, stored, wfail, fresh, nonCacheVars>>

\* SystemTime::now().duration_since(modified) and the comparison with max_age
GetAge(p) ==
    /\ call[p].op = "get" /\ call[p].pc = "age"
    /\ call' = [call EXCEPT
          ![p] = IF AgeOk(now, call[p].modified)
                 THEN [@ EXCEPT !.pc = "open", !.nowAt = now]
                 ELSE [@ EXCEPT !.pc = "done", !.ret = None, !.nowAt = now]]
    /\ UNCHANGED <<files, wroteAt, now, blobOf, stored, wfail, fresh, nonCacheVars>>

\* fs::read(path): File::open; an error becomes None through .ok()
GetOpen(p) ==
    /\ call[p].op = "get" /\ call[p].pc = "open"
    /\ LET k == call[p].key
       IN  call' = [call EXCEPT
              ![p] = IF files[k].kind # "file"
                     THEN [@ EXCEPT !.pc = "done", !.ret = None]
                     ELSE [@ EXCEPT !.pc = "read", !.off = 0, !.buf = <<>>]]
    /\ UNCHANGED <<files, wroteAt, now, blobOf, stored, wfail, fresh, nonCacheVars>>

\* fs::read(path): one read(2) of read_to_end; it returns the bytes between the
\* offset and the end of the file, and none of them ends the loop
GetRead(p) ==
    /\ call[p].op = "get" /\ call[p].pc = "read"
    /\ LET k == call[p].key
           avail == SubSeq(files[k].data, call[p].off + 1, Len(files[k].data))
       IN  call' = [call EXCEPT
              ![p] = IF avail = <<>>
                     THEN [@ EXCEPT !.pc = "done", !.ret = Some(call[p].buf)]
                     ELSE [@ EXCEPT !.buf = @ \o avail,
                                    !.off = @ + Len(avail)]]
    /\ UNCHANGED <<files, wroteAt, now, blobOf, stored, wfail, fresh, nonCacheVars>>

\* time passes
Tick ==
    /\ \E t \in Times : t > now /\ now' = t
    /\ UNCHANGED <<files, wroteAt, call, blobOf, stored, wfail, fresh, nonCacheVars>>

CacheStep(p) ==
    \/ StoreOpen(p) \/ StoreOpenFail(p) \/ StoreWrite(p) \/ StoreWriteFail(p)
    \/ StoreReturn(p)
    \/ GetMetadata(p) \/ GetAge(p) \/ GetOpen(p) \/ GetRead(p)

-----------------------------------------------------------------------------
(* Threads that share one ImageCache and call it concurrently *)

HarnessKeys == {<<"k", "1">>}

\* what the directory may hold when the cache is constructed: nothing, a file
\* of an earlier run (any age), or something that is not a readable file
OldBlob == [i \in 1..DataLen |-> 2]
InitEntries ==
    {NoFile} \cup {RegularFile(OldBlob, t) : t \in Times}
             \cup {Directory(0)}

CacheInit ==
    /\ query = <<>> /\ params = <<>> /\ pos = 0
    /\ opts = DefaultOptions /\ prevOpts = DefaultOptions /\ fqpc = "off"
    /\ files \in [HarnessKeys -> InitEntries]
    /\ now \in Times
    /\ call = [p \in Threads |-> IdleCall]
    /\ blobOf \in [HarnessKeys -> Blobs]
    /\ stored = [k \in HarnessKeys |-> FALSE]
    /\ wfail = [k \in HarnessKeys |-> FALSE]
    /\ fresh = [k \in HarnessKeys |-> FALSE]
    /\ wroteAt = [k \in HarnessKeys |-> 0]
    /\ spc = "off" /\ req = NoRequest /\ options = DefaultOptions
    /\ cacheDirExists = TRUE /\ resp = NoResponse
    /\ memo = <<>> /\ failedLast = <<>>
    /\ fnIn = <<>> /\ fnOut = <<>> /\ fnPc = "off"

\* a thread calls cache.store(key, data) with the bytes computed for key
CallStore(p) ==
    /\ call[p].op = "idle"
    /\ \E k \in HarnessKeys : call' = [call EXCEPT ![p] = StoreCall(k, blobOf[k])]
    /\ UNCHANGED <<files, wroteAt, now, blobOf, stored, wfail, fresh, nonCacheVars>>

\* a thread calls cache.get_cached(key)
CallGet(p) ==
    /\ call[p].op = "idle"
    /\ \E k \in HarnessKeys : call' = [call EXCEPT ![p] = GetCall(k)]
    /\ UNCHANGED <<files, wroteAt, now, blobOf, stored, wfail, fresh, nonCacheVars>>

\* the call has returned; the thread is free for its next call
CallDone(p) ==
    /\ call[p].pc = "done"
    /\ call' = [call EXCEPT ![p] = IdleCall]
    /\ UNCHANGED <<files, wroteAt, now, blobOf, stored, wfail, fresh, nonCacheVars>>

CacheNext ==
    \/ \E p \in Workers : CallStore(p) \/ CallGet(p) \/ CallDone(p) \/ CacheStep(p)
    \/ Tick

SpecCache == CacheInit /\ [][CacheNext]_vars

-----------------------------------------------------------------------------
(* The public directory, content types *)

Last(sq) == sq[Len(sq)]

RECURSIVE TrimStart(_, _)
\* str::trim_start_matches(c)
TrimStart(sq, c) ==
    IF sq # <<>> /\ Head(sq) = c THEN TrimStart(Tail(sq), c) ELSE sq

PublicDir == <<"p", "u", "b", "l", "i", "c">>

\* Path::new("public").join(path.trim_start_matches('/'))
FilePath(path) == PublicDir \o <<"/">> \o TrimStart(path, "/")

\* Path::starts_with("public"): the first component is "public"
PathStartsWithPublic(fp) == Split(fp, "/")[1] = PublicDir

\* Path::extension(): what follows the last '.' of the file name, if the name
\* has one that is not its first character
Extension(fp) ==
    LET name == Last(Split(fp, "/"))
        parts == Split(name, ".")
    IN  IF Len(parts) < 2 \/ (Len(parts) = 2 /\ parts[1] = <<>>) THEN None
        ELSE Some(Last(parts))

get_content_type(fp) ==
    LET e == Extension(fp)
    IN  IF e = Some(<<"h", "t", "m", "l">>) THEN "text/html"
        ELSE IF e = Some(<<"c", "s", "s">>) THEN "text/css"
        ELSE IF e = Some(<<"j", "s">>) THEN "application/javascript"
        ELSE IF e = Some(<<"p", "n", "g">>) THEN "image/png"
        ELSE IF e \in {Some(<<"j", "p", "g">>), Some(<<"j", "p", "e", "g">>)}
             THEN "image/jpeg"
        ELSE IF e = Some(<<"g", "i", "f">>) THEN "image/gif"
        ELSE "application/octet-stream"

is_image_content_typeAny(ct) == TRUE

is_image_content_type(ct) ==
    ct \in {"image/jpeg", "image/png", "image/webp", "image/gif"}

is_compressibleAny(ct) == TRUE

is_compressible(ct) ==
    ct \in {"text/html", "text/css", "application/javascript", "text/javascript",
            "text/plain", "application/json", "application/xml"}

PathIndex == <<"/", "i", "n", "d", "e", "x", ".", "h", "t", "m", "l">>
PathPhoto == <<"/", "a", ".", "j", "p", "g">>
PathBroken == <<"/", "b", ".", "p", "n", "g">>
PathMissing == <<"/", "c", ".", "g", "i", "f">>
PathCss == <<"/", "/", "s", ".", "c", "s", "s">>
PathJson == <<"/", "d", ".", "j", "s", "o", "n">>
PathEscape == <<"/", ".", ".", "/", "k", "e", "y">>

\* the components of a path as the operating system resolves it from the
\* working directory: "" and "." are skipped, ".." leaves the directory it
\* follows (no symbolic links)
RECURSIVE ResolveFrom(_, _)
ResolveFrom(comps, dir) ==
    IF comps = <<>> THEN dir
    ELSE LET c == Head(comps)
         IN  IF c = <<>> \/ c = <<".">> THEN ResolveFrom(Tail(comps), dir)
             ELSE IF c = <<".", ".">>
             THEN ResolveFrom(Tail(comps),
                              IF dir = <<>> \/ Last(dir) = <<".", ".">>
                              THEN Append(dir, c)
                              ELSE SubSeq(dir, 1, Len(dir) - 1))
             ELSE ResolveFrom(Tail(comps), Append(dir, c))

Resolve(fp) == ResolveFrom(Split(fp, "/"), <<>>)

\* the resolved path lies in the directory public of the working directory
InsidePublic(fp) == Resolve(fp) # <<>> /\ Resolve(fp)[1] = PublicDir

\* the first byte of a file that image::load_from_memory can decode; the two
\* bytes after it are the image's width and height
ImageMagic == 255
TextByte == 32
Filled(n, byte) == [i \in 1..n |-> byte]

\* the files of the working directory: under public/ a page of 1025 bytes, a
\* style sheet of 1024 bytes, a JSON file of 1025 bytes, a 4x2 image and a
\* file named like an image whose bytes do not decode; beside public/ a file
\* that is not meant to be served
WorkingDir ==
    (Resolve(FilePath(PathIndex)) :> Filled(1025, TextByte))
    @@ (Resolve(FilePath(PathCss)) :> Filled(1024, TextByte))
    @@ (Resolve(FilePath(PathJson)) :> Filled(1025, TextByte))
    @@ (Resolve(FilePath(PathPhoto)) :> <<ImageMagic, 4, 2>>)
    @@ (Resolve(FilePath(PathBroken)) :> <<TextByte, 4, 2>>)
    @@ (<< <<"k", "e", "y">> >> :> <<TextByte, TextByte>>)

\* fs::read(&file_path)
FsRead(fp) ==
    IF Resolve(fp) \in DOMAIN WorkingDir THEN Some(WorkingDir[Resolve(fp)])
    ELSE None

-----------------------------------------------------------------------------
(* ImageOptions::cache_key and optimize_image *)

RECURSIVE DecimalDigits(_)
\* Display of an unsigned integer
DecimalDigits(n) ==
    LET d == <<"0", "1", "2", "3", "4", "5", "6", "7", "8", "9">>[(n % 10) + 1]
    IN  IF n < 10 THEN <<d>> ELSE Append(DecimalDigits(n \div 10), d)

\* {:?} of an Option<u32>
DebugOption(o) ==
    IF IsSome(o)
    THEN <<"S", "o", "m", "e", "(">> \o DecimalDigits(Unwrap(o)) \o <<")">>
    ELSE <<"N", "o", "n", "e">>

\* {:?} of an ImageOutputFormat
DebugFormat(f) ==
    IF f.tag = "Jpeg" THEN <<"J", "p", "e", "g", "(">> \o DecimalDigits(f.q) \o <<")">>
    ELSE IF f.tag = "Png" THEN <<"P", "n", "g">>
    ELSE <<"W", "e", "b", "P">>

DigestInputNoQuality(o, original_path) ==
    original_path \o <<"w">> \o DebugOption(o.width) \o <<"h">>
        \o DebugOption(o.height) \o <<"f", "m", "t">> \o DebugFormat(o.format)

\* the bytes fed to the hasher: the path, then
\* format!("w{:?}h{:?}q{}fmt{:?}", width, height, quality, format)
DigestInput(o, original_path) ==
    original_path \o <<"w">> \o DebugOption(o.width) \o <<"h">>
        \o DebugOption(o.height) \o <<"q">> \o DecimalDigits(o.quality)
        \o <<"f", "m", "t">> \o DebugFormat(o.format)

\* the key is the SHA-256 of the digest input in hex; the digest is taken to be
\* collision-free, so the key is identified with the input it was computed from
cache_key(o, original_path) == DigestInput(o, original_path)

\* (a * b / c) truncated, as the f32 arithmetic of optimize_image yields it for
\* the dimensions drawn here (ratios that f32 represents exactly)
ScaleTrunc(a, b, c) == (a * b) \div c

Max(a, b) == IF a >= b THEN a ELSE b

\* DynamicImage::resize(nw, nh, _): the largest size within nw x nh that keeps
\* the aspect ratio of the sw x sh image, each side rounded and at least 1
Resize(sw, sh, nw, nh) ==
    IF nw * sh <= nh * sw
    THEN <<Max((2 * sw * nw + sw) \div (2 * sw), 1),
           Max((2 * sh * nw + sw) \div (2 * sw), 1)>>
    ELSE <<Max((2 * sw * nh + sh) \div (2 * sh), 1),
           Max((2 * sh * nh + sh) \div (2 * sh), 1)>>

\* the dimensions of `resized`
ResizedDims(sw, sh, o) ==
    IF IsSome(o.width) /\ IsSome(o.height)
    THEN Resize(sw, sh, Unwrap(o.width), Unwrap(o.height))
    ELSE IF IsSome(o.width)
    THEN Resize(sw, sh, Unwrap(o.width), ScaleTrunc(sh, Unwrap(o.width), sw))
    ELSE IF IsSome(o.height)
    THEN Resize(sw, sh, ScaleTrunc(sw, Unwrap(o.height), sh), Unwrap(o.height))
    ELSE <<sw, sh>>

\* a byte that tells the formats (and the JPEG qualities) apart
FormatByte(f) ==
    IF f.tag = "Jpeg" THEN 1 + f.q ELSE IF f.tag = "Png" THEN 102 ELSE 103

\* resized.write_to(&mut cursor, format): the encoded image, abstracted to the
\* bytes that depend on the format and on the dimensions
Encode(dims, f) == <<FormatByte(f), dims[1], dims[2]>>

\* image::load_from_memory(img_data): the decoded image's width and height
Decode(img_data) ==
    IF Len(img_data) >= 3 /\ img_data[1] = ImageMagic
    THEN Some(<<img_data[2], img_data[3]>>)
    ELSE None

\* the width and height of an encoded image
DimsOf(encoded) == <<encoded[2], encoded[3]>>

\* optimize_image(img_data, options): None stands for Err(ImageError)
optimize_image(content, o) ==
    IF ~IsSome(Decode(content)) THEN None
    ELSE LET src == Unwrap(Decode(content))
         IN  Some(Encode(ResizedDims(src[1], src[2], o), o.format))

FormatContentTypeOfSource(f, content_type) == content_type

\* the content type serve_file derives from options.format
FormatContentType(f, content_type) ==
    IF f.tag = "Jpeg" THEN "image/jpeg"
    ELSE IF f.tag = "Png" THEN "image/png"
    ELSE IF f.tag = "WebP" THEN "image/webp"
    ELSE content_type

-----------------------------------------------------------------------------
(* Responses *)

\* the message bodies, as their bytes: "Not found", "Forbidden",
\* "Image processing failed"
TextNotFound == <<78, 111, 116, 32, 102, 111, 117, 110, 100>>
TextForbidden == <<70, 111, 114, 98, 105, 100, 100, 101, 110>>
TextFailed ==
    <<73, 109, 97, 103, 101, 32, 112, 114, 111, 99, 101, 115, 115, 105, 110, 103>> \o
    <<32, 102, 97, 105, 108, 101, 100>>

\* where the runs of equal bytes of a byte string begin, in order
RunStarts(content) == {i \in 1..Len(content) : i = 1 \/ content[i] # content[i - 1]}
NthOf(S, n) == CHOOSE i \in S : Cardinality({j \in S : j < i}) = n - 1

\* the deflate stream, abstracted to a run-length code: (byte, length) per run
Deflate(content) ==
    LET S == RunStarts(content)
        n == Cardinality(S)
        start(k) == IF k > n THEN Len(content) + 1 ELSE NthOf(S, k)
    IN  [i \in 1..(2 * n) |->
            IF i % 2 = 1 THEN content[start((i + 1) \div 2)]
            ELSE start(i \div 2 + 1) - start(i \div 2)]

GzipMagic == <<31, 139>>

\* GzEncoder::new(..); encoder.write(content); encoder.finish(): the gzip
\* member is the magic, the deflate stream and the length of the input (a
\* content of this size is consumed by the one call of write)
Gzip(content) == GzipMagic \o Deflate(content) \o <<Len(content)>>

\* a response: the status line, the headers ("" for a header that is not
\* written) and the body bytes behind the blank line
\* build_response(status, Some(text)): no Content-Type header
build_response(status, text) ==
    [status |-> status, ctype |-> "", content_length |-> Len(text),
     content_encoding |-> "", vary |-> "", body |-> text]

\* build_response_with_type(status, Some(body), content_type)
build_response_with_type(status, body, ct) ==
    [status |-> status, ctype |-> ct, content_length |-> Len(body),
     content_encoding |-> "", vary |-> "", body |-> body]

build_compressed_responseRawLength(status, content, ct) ==
    [status |-> status, ctype |-> ct, content_length |-> Len(content),
     content_encoding |-> "gzip", vary |-> "Accept-Encoding",
     body |-> Gzip(content)]

\* build_compressed_response(status, content, content_type)
build_compressed_response(status, content, ct) ==
    LET compressed == Gzip(content)
    IN  [status |-> status, ctype |-> ct, content_length |-> Len(compressed),
         content_encoding |-> "gzip", vary |-> "Accept-Encoding",
         body |-> compressed]

\* history kept with a response: the request it answers and how it came about
Answer(r, how, extra) == r @@ [via |-> how] @@ extra

-----------------------------------------------------------------------------
(* main: one request at a time, handle_request and serve_file *)

QueryW2 == Some(KeyValue(KeyW, <<"2">>))
QueryPng == Some(KeyValue(KeyFmt, ValPng))
ServerQueries == {None, QueryW2, QueryPng}

\* the requests main reads from its connections: method, path, query and
\* whether an Accept-Encoding header names gzip
Request(method, path, q, gz) ==
    [method |-> method, path |-> path, query |-> q, accepts_gzip |-> gz]
ServerRequests ==
    {Request("GET", <<"/">>, q, gz) : q \in {None, QueryW2}, gz \in BOOLEAN}
        \cup {Request("GET", PathIndex, QueryW2, TRUE),
              Request("GET", PathCss, None, TRUE),
              Request("GET", PathJson, None, TRUE),
              Request("GET", PathEscape, None, FALSE),
              Request("GET", PathMissing, None, FALSE),
              Request("GET", PathMissing, QueryW2, TRUE),
              Request("GET", PathPhoto, None, TRUE),
              Request("GET", PathPhoto, QueryW2, TRUE),
              Request("GET", PathPhoto, QueryW2, FALSE),
              Request("GET", PathPhoto, QueryPng, FALSE),
              Request("GET", PathBroken, None, FALSE),
              Request("GET", PathBroken, QueryW2, TRUE),
              Request("POST", PathPhoto, QueryW2, FALSE)}
ImagePaths == {PathPhoto, PathBroken}
ServerKeys ==
    {cache_key(from_query(Unwrap(q)), path) :
        path \in ImagePaths, q \in ServerQueries \ {None}}

Main == 0

Init ==
    /\ query = <<>> /\ params = <<>> /\ pos = 0
    /\ opts = DefaultOptions /\ prevOpts = DefaultOptions /\ fqpc = "off"
    /\ files = [k \in ServerKeys |-> NoFile]
    /\ now = 0
    /\ call = [p \in Threads |-> IdleCall]
    /\ blobOf = [k \in ServerKeys |-> <<>>]
    /\ stored = [k \in ServerKeys |-> FALSE]
    /\ wfail = [k \in ServerKeys |-> FALSE]
    /\ fresh = [k \in ServerKeys |-> FALSE]
    /\ wroteAt = [k \in ServerKeys |-> 0]
    /\ spc = "accept"
    /\ req = NoRequest
    /\ options = DefaultOptions
    /\ cacheDirExists \in BOOLEAN
    /\ resp = NoResponse
    /\ memo = [k \in ServerKeys |-> None]
    /\ failedLast = [k \in ServerKeys |-> FALSE]
    /\ fnIn = <<>> /\ fnOut = <<>> /\ fnPc = "off"

\* the response is written to the stream and main waits for the next one
Respond(r) ==
    /\ resp' = r
    /\ spc' = "accept"
    /\ req' = NoRequest
    /\ options' = DefaultOptions

\* handle_request: the request line is split, and a GET goes to serve_file
\* (the record of the previous response is dropped)
HandleRequest ==
    /\ spc = "accept"
    /\ \E r \in ServerRequests :
         IF r.method = "GET" /\ r.path = <<"/">>
         THEN /\ req' = [path |-> PathIndex, query |-> None,
                          accepts_gzip |-> r.accepts_gzip, before |-> files]
              /\ spc' = "serve"
              /\ resp' = NoResponse
              /\ UNCHANGED options
         ELSE IF r.method = "GET"
         THEN /\ req' = [path |-> r.path, query |-> r.query,
                          accepts_gzip |-> r.accepts_gzip, before |-> files]
              /\ spc' = "serve"
              /\ resp' = NoResponse
              /\ UNCHANGED options
         ELSE Respond(Answer(build_response(404, TextNotFound), "route", <<>>))
    /\ UNCHANGED <<cacheDirExists, memo, failedLast, parseVars, pureVars, cacheVars>>

\* what a response of serve_file is remembered with: the arguments of the
\* call, and whether the cache directory is as it was when the call began
Served(r, how) ==
    Answer(r, how,
           [path |-> req.path, query |-> req.query,
            accepts_gzip |-> req.accepts_gzip, cacheSame |-> files = req.before])

\* serve_file up to the cache: the 403 check, fs::read, the content type, and,
\* for an image with a query, ImageOptions::from_query
ServeFile ==
    /\ spc = "serve"
    /\ LET fp == FilePath(req.path)
           content == FsRead(fp)
           ct == get_content_type(fp)
       IN  IF ~PathStartsWithPublic(fp)
           THEN Respond(Served(build_response(403, TextForbidden), "forbidden"))
           ELSE IF ~IsSome(content)
           THEN Respond(Served(build_response(404, TextNotFound), "missing"))
           ELSE IF is_image_content_type(ct) /\ IsSome(req.query)
           THEN /\ options' = from_query(Unwrap(req.query))
                /\ spc' = "new_cache"
                /\ UNCHANGED <<req, resp>>
           ELSE IF /\ req.accepts_gzip /\ is_compressible(ct)
                   /\ Len(Unwrap(content)) > 1024
           THEN Respond(Served(build_compressed_response(200, Unwrap(content), ct),
                               "plain"))
           ELSE Respond(Served(build_response_with_type(200, Unwrap(content), ct),
                               "plain"))
    /\ UNCHANGED <<cacheDirExists, memo, failedLast, parseVars, pureVars, cacheVars>>

\* ImageCache::new: fs::create_dir_all succeeds; then options.cache_key(path)
\* and the call of cache.get_cached
NewCache ==
    /\ spc = "new_cache"
    /\ cacheDirExists' = TRUE
    /\ call' = [call EXCEPT ![Main] = GetCall(cache_key(options, req.path))]
    /\ spc' = "lookup"
    /\ UNCHANGED <<req, options, resp, memo, failedLast, parseVars, pureVars,
                   files, now, blobOf, stored, wfail, fresh, wroteAt>>

\* ImageCache::new: fs::create_dir_all fails and unwrap_or_else panics; main
\* has no other thread, so the process ends
NewCachePanic ==
    /\ spc = "new_cache"
    /\ ~cacheDirExists
    /\ spc' = "panicked"
    /\ UNCHANGED <<req, options, cacheDirExists, resp, memo, failedLast,
                   parseVars, pureVars, cacheVars>>

\* what a response of the image path is remembered with
ImageAnswer(r, how, k) ==
    Answer(Served(r, how), how,
           [options |-> options, key |-> k,
            prior |-> memo[k], lookedAt |-> call[Main].nowAt,
            afterFail |-> failedLast[k]])

\* get_cached returned Some(cached_image)
CacheHit ==
    /\ spc = "lookup"
    /\ call[Main].pc = "done" /\ IsSome(call[Main].ret)
    /\ LET k == call[Main].key
           ct == get_content_type(FilePath(req.path))
       IN  /\ Respond(ImageAnswer(
                 build_response_with_type(200, Unwrap(call[Main].ret),
                                          FormatContentType(options.format, ct)),
                 "hit", k))
           /\ failedLast' = [failedLast EXCEPT ![k] = FALSE]
    /\ call' = [call EXCEPT ![Main] = IdleCall]
    /\ UNCHANGED <<cacheDirExists, memo, parseVars, pureVars,
                   files, now, blobOf, stored, wfail, fresh, wroteAt>>

\* get_cached returned None and optimize_image returned Ok: cache.store is called
CacheMissOptimized ==
    /\ spc = "lookup"
    /\ call[Main].pc = "done" /\ call[Main].ret = None
    /\ LET optimized == optimize_image(Unwrap(FsRead(FilePath(req.path))), options)
       IN  /\ IsSome(optimized)
           /\ call' = [call EXCEPT
                 ![Main] = [StoreCall(call[Main].key, Unwrap(optimized))
                               EXCEPT !.nowAt = call[Main].nowAt]]
    /\ spc' = "storing"
    /\ UNCHANGED <<req, options, cacheDirExists, resp, memo, failedLast, parseVars, pureVars,
                   files, now, blobOf, stored, wfail, fresh, wroteAt>>

CacheMissFailedStoring ==
    /\ spc = "lookup"
    /\ call[Main].pc = "done" /\ call[Main].ret = None
    /\ optimize_image(Unwrap(FsRead(FilePath(req.path))), options) = None
    /\ LET k == call[Main].key
           written == [files EXCEPT ![k] = FileCreate(now)]
       IN  /\ files' = written
           /\ Respond([ImageAnswer(build_response(500, TextFailed), "error", k)
                          EXCEPT !.cacheSame = (written = req.before)])
    /\ call' = [call EXCEPT ![Main] = IdleCall]
    /\ UNCHANGED <<cacheDirExists, memo, failedLast, parseVars, pureVars,
                   now, blobOf, stored, wfail, fresh, wroteAt>>

\* get_cached returned None and optimize_image returned Err
CacheMissFailed ==
    /\ spc = "lookup"
    /\ call[Main].pc = "done" /\ call[Main].ret = None
    /\ optimize_image(Unwrap(FsRead(FilePath(req.path))), options) = None
    /\ Respond(ImageAnswer(build_response(500, TextFailed),
                           "error", call[Main].key))
    /\ call' = [call EXCEPT ![Main] = IdleCall]
    /\ UNCHANGED <<cacheDirExists, memo, failedLast, parseVars, pureVars,
                   files, now, blobOf, stored, wfail, fresh, wroteAt>>

\* cache.store has returned: an Err is printed, and in both cases the
\* optimized bytes are sent with the content type of options.format
Stored ==
    /\ spc = "storing"
    /\ call[Main].pc = "done"
    /\ LET k == call[Main].key
           ct == get_content_type(FilePath(req.path))
           r == build_response_with_type(200, call[Main].data,
                                         FormatContentType(options.format, ct))
       IN  /\ Respond(ImageAnswer(r, IF call[Main].ok THEN "miss" ELSE "unstored", k))
           /\ failedLast' = [failedLast EXCEPT ![k] = ~call[Main].ok]
           /\ memo' = IF call[Main].ok
                      THEN [memo EXCEPT ![k] = Some([path |-> req.path,
                                                     options |-> options,
                                                     body |-> r.body,
                                                     ctype |-> r.ctype,
                                                     at |-> wroteAt[k]])]
                      ELSE memo
    /\ call' = [call EXCEPT ![Main] = IdleCall]
    /\ UNCHANGED <<cacheDirExists, parseVars, pureVars,
                   files, now, blobOf, stored, wfail, fresh, wroteAt>>

Next ==
    \/ HandleRequest
    \/ ServeFile
    \/ NewCache
    \/ NewCachePanic
    \/ CacheHit
    \/ CacheMissOptimized
    \/ CacheMissFailed
    \/ Stored
    \/ StoreOpen(Main) \/ StoreOpenFail(Main) \/ StoreWrite(Main)
    \/ StoreWriteFail(Main) \/ StoreReturn(Main)
    \/ GetMetadata(Main) \/ GetAge(Main) \/ GetOpen(Main) \/ GetRead(Main)
    \/ Tick

Spec == Init /\ [][Next]_vars

-----------------------------------------------------------------------------
(* ImageOptions::cache_key on its own *)

\* resource paths of which one continues another with what the formatted
\* options begin with
KeyPaths ==
    {<<"/", "a">>, <<"/", "a", "w">>, <<"/", "a", "w", "N", "o", "n", "e">>,
     <<"/", "a", "1">>}
KeyOptions ==
    [width : {None, Some(0), Some(1), Some(10)},
     height : {None, Some(1)},
     quality : {0, 1, 10, 100},
     format : {Jpeg(1), Jpeg(10), Png, WebP}]
KeyInputs == [path : KeyPaths, options : KeyOptions]
IdleFiles == <<>>

KeyInit ==
    /\ query = <<>> /\ params = <<>> /\ pos = 0
    /\ opts = DefaultOptions /\ prevOpts = DefaultOptions /\ fqpc = "off"
    /\ files = IdleFiles /\ now = 0 /\ call = <<>> /\ blobOf = <<>>
    /\ stored = <<>> /\ wfail = <<>> /\ fresh = <<>> /\ wroteAt = <<>>
    /\ spc = "off" /\ req = NoRequest /\ options = DefaultOptions
    /\ cacheDirExists = TRUE /\ resp = NoResponse
    /\ memo = <<>> /\ failedLast = <<>>
    /\ fnIn \in KeyInputs
    /\ fnOut = <<>>
    /\ fnPc = "call"

\* options.cache_key(path), called twice on the same arguments
CacheKeyCall ==
    /\ fnPc = "call"
    /\ fnOut' = Append(fnOut, DigestInput(fnIn.options, fnIn.path))
    /\ fnPc' = IF Len(fnOut) = 1 THEN "done" ELSE "call"
    /\ UNCHANGED <<fnIn, parseVars, cacheVars, serverVars>>

KeyNext == CacheKeyCall

SpecKey == KeyInit /\ [][KeyNext]_vars

-----------------------------------------------------------------------------
(* optimize_image on its own *)

\* source images whose sides are powers of two, so that the f32 ratio and
\* product of optimize_image are exact
SourceDims == {<<4, 2>>, <<2, 4>>, <<4, 4>>}
RequestedDims == {None, Some(1), Some(2), Some(3), Some(6)}
ImageInputs ==
    [img_data : {<<ImageMagic, d[1], d[2]>> : d \in SourceDims}
                   \cup {<<TextByte, 4, 2>>},
     options : [width : RequestedDims, height : RequestedDims,
                quality : {80}, format : {Jpeg(80), Png}]]

ImageInit ==
    /\ query = <<>> /\ params = <<>> /\ pos = 0
    /\ opts = DefaultOptions /\ prevOpts = DefaultOptions /\ fqpc = "off"
    /\ files = IdleFiles /\ now = 0 /\ call = <<>> /\ blobOf = <<>>
    /\ stored = <<>> /\ wfail = <<>> /\ fresh = <<>> /\ wroteAt = <<>>
    /\ spc = "off" /\ req = NoRequest /\ options = DefaultOptions
    /\ cacheDirExists = TRUE /\ resp = NoResponse
    /\ memo = <<>> /\ failedLast = <<>>
    /\ fnIn \in ImageInputs
    /\ fnOut = None
    /\ fnPc = "call"

\* optimize_image(img_data, options)
OptimizeImageCall ==
    /\ fnPc = "call"
    /\ fnOut' = optimize_image(fnIn.img_data, fnIn.options)
    /\ fnPc' = "done"
    /\ UNCHANGED <<fnIn, parseVars, cacheVars, serverVars>>

ImageNext == OptimizeImageCall

SpecImage == ImageInit /\ [][ImageNext]_vars

-----------------------------------------------------------------------------
(* The query strings from_query is run on *)

DimKeys == {KeyW, KeyWidth, KeyH, KeyHeight}
DimValues == {<<"0">>, <<"7">>, <<"a">>,
              <<"4", "2", "9", "4", "9", "6", "7", "2", "9", "6">>}
QualityKeys == {KeyQ, KeyQuality}
QualityValues == {<<"0">>, <<"7">>, <<"1", "0", "0">>, <<"1", "0", "1">>,
                  <<"2", "5", "5">>, <<"2", "5", "6">>, <<"a">>, <<>>,
                  <<"+", "9">>, <<"-", "1">>}
FormatValues == {ValJpg, ValJpeg, ValPng, ValWebp, <<"g", "i", "f">>}

RawParams ==
    {KeyValue(k, v) : k \in DimKeys, v \in DimValues}
        \cup {KeyValue(k, v) : k \in QualityKeys, v \in QualityValues}
        \cup {KeyValue(KeyFmt, v) : v \in FormatValues}
        \cup {KeyValue(<<"x">>, <<"7">>),          \* an unknown key
              KeyW,                                \* no '='
              <<>>,                                \* an empty parameter
              KeyValue(KeyValue(KeyQ, <<"7">>), <<"9">>)}   \* "q=7=9"

RECURSIVE JoinAmp(_)
JoinAmp(ps) ==
    IF ps = <<>> THEN <<>>
    ELSE IF Len(ps) = 1 THEN ps[1]
    ELSE ps[1] \o <<"&">> \o JoinAmp(Tail(ps))

Queries ==
    {JoinAmp(ps) : ps \in UNION {[1..n -> RawParams] : n \in 0..MaxPairs}}

-----------------------------------------------------------------------------
(* ImageOptions::from_query, statement by statement *)

ParseInit ==
    /\ files = <<>> /\ now = 0 /\ call = <<>> /\ blobOf = <<>>
    /\ stored = <<>> /\ wfail = <<>> /\ fresh = <<>> /\ wroteAt = <<>>
    /\ spc = "off" /\ req = NoRequest /\ options = DefaultOptions
    /\ cacheDirExists = TRUE /\ resp = NoResponse
    /\ memo = <<>> /\ failedLast = <<>>
    /\ fnIn = <<>> /\ fnOut = <<>> /\ fnPc = "off"
    /\ query \in Queries
    /\ params = <<>>
    /\ pos = 0
    /\ opts = DefaultOptions
    /\ prevOpts = DefaultOptions
    /\ fqpc = "split"

\* let params = query.split('&').filter_map(..).collect(); let mut opts = ..
FromQuerySplit ==
    /\ fqpc = "split"
    /\ params' = QueryParams(query)
    /\ opts' = DefaultOptions
    /\ prevOpts' = DefaultOptions
    /\ pos' = 0
    /\ fqpc' = "loop"
    /\ UNCHANGED <<query, nonParseVars>>

\* one iteration of the for loop
FromQueryStep ==
    /\ fqpc = "loop"
    /\ pos < Len(params)
    /\ pos' = pos + 1
    /\ prevOpts' = opts
    /\ opts' = ApplyParam(opts, params[pos + 1][1], params[pos + 1][2])
    /\ UNCHANGED <<query, params, fqpc, nonParseVars>>

\* the loop is exhausted: `opts` is returned
FromQueryReturn ==
    /\ fqpc = "loop"
    /\ pos = Len(params)
    /\ fqpc' = "done"
    /\ UNCHANGED <<query, params, pos, opts, prevOpts, nonParseVars>>

ParseNext == FromQuerySplit \/ FromQueryStep \/ FromQueryReturn

SpecParse == ParseInit /\ [][ParseNext]_vars

-----------------------------------------------------------------------------
(* Properties of ImageCache under concurrent callers (SpecCache) *)

GetDone(p) == call[p].op = "get" /\ call[p].pc = "done"
\* a get_cached that has returned, that no store overlapped, and after which
\* no store has touched the file yet
QuietGet(p) == GetDone(p) /\ call[p].clean

\* C1: a get_cached that runs concurrently with a store never returns a
\* partially written blob: it returns None, or the complete bytes of an
\* earlier store of that key, or the complete bytes being stored.
C1_GetNeverPartial ==
    \A p \in DOMAIN call :
        (GetDone(p) /\ IsSome(call[p].ret))
            => Unwrap(call[p].ret) \in {blobOf[call[p].key], OldBlob}

\* C3 as claimed: for an entry that is present and readable, get_cached
\* returns its bytes if and only if now - timestamp <= max_age, whatever the
\* two values are, returns None otherwise, and leaves the entry as it was.
C3_FreshIffAgeWithinMax ==
    \A p \in DOMAIN call :
        (QuietGet(p) /\ call[p].snap.kind = "file")
            => /\ files[call[p].key] = call[p].snap
               /\ IF call[p].nowAt - call[p].snap.mtime <= max_age
                  THEN call[p].ret = Some(call[p].snap.data)
                  ELSE call[p].ret = None

\* C3 as amended: for an entry that is present and readable, get_cached
\* returns its bytes if and only if the timestamp is not later than now and
\* now - timestamp <= max_age; otherwise (expired, or stamped in the future)
\* it returns None; in every case the entry is left as it was.
C3_FreshIffAgeBetweenZeroAndMax ==
    \A p \in DOMAIN call :
        (QuietGet(p) /\ call[p].snap.kind = "file")
            => /\ files[call[p].key] = call[p].snap
               /\ IF /\ call[p].snap.mtime <= call[p].nowAt
                     /\ call[p].nowAt - call[p].snap.mtime <= max_age
                  THEN call[p].ret = Some(call[p].snap.data)
                  ELSE call[p].ret = None

\* an expired entry was looked up: None was returned and the file is still there
C3_ExpiredEntryKept ==
    \E p \in DOMAIN call :
        /\ QuietGet(p) /\ call[p].snap.kind = "file"
        /\ call[p].nowAt - call[p].snap.mtime > max_age
        /\ call[p].ret = None
        /\ files[call[p].key].kind = "file"
        /\ files[call[p].key].data = OldBlob

\* C4: a store that returned Ok and that no other store overlapped, followed
\* (with no store of that key in between, and with the get reading the clock
\* no more than max_age after the store wrote) by a get_cached of the same
\* key, makes the get return exactly the stored bytes, whatever the directory
\* held for that key before.
C4_StoreThenGet ==
    \A p \in DOMAIN call :
        (/\ QuietGet(p) /\ fresh[call[p].key]
         /\ call[p].nowAt - wroteAt[call[p].key] <= max_age)
            => call[p].ret = Some(blobOf[call[p].key])

\* a get right after a store returned bytes that differ from the old entry's
C4_GotWhatWasStored ==
    \E p \in DOMAIN call :
        /\ QuietGet(p) /\ fresh[call[p].key]
        /\ call[p].ret = Some(blobOf[call[p].key])
        /\ blobOf[call[p].key] # OldBlob

\* C5: once every store of a key has returned Ok, all of them carrying the
\* same bytes and in any interleaving, the entry holds exactly those bytes,
\* and a later get_cached returns them unless the entry has expired.
C5_ConcurrentStoresConverge ==
    \A k \in DOMAIN files :
        (stored[k] /\ ~wfail[k] /\ NoWriter(k))
            => /\ files[k].kind = "file"
               /\ files[k].data = blobOf[k]
               /\ \A p \in DOMAIN call :
                     (QuietGet(p) /\ call[p].key = k)
                         => \/ call[p].ret = Some(blobOf[k])
                            \/ /\ call[p].ret = None
                               /\ call[p].nowAt - call[p].modified > max_age

\* two stores of one key overlapped, both returned Ok, and a get followed
C5_OverlappingStoresDone ==
    \E p, q \in DOMAIN call :
        /\ call[p].op = "store" /\ call[p].pc = "done" /\ call[p].ok
        /\ ~call[p].clean
        /\ stored[call[p].key] /\ ~wfail[call[p].key] /\ NoWriter(call[p].key)
        /\ QuietGet(q) /\ call[q].key = call[p].key
        /\ call[q].ret = Some(blobOf[call[p].key])

-----------------------------------------------------------------------------
(* Properties of serve_file under the sequential loop of main (Spec) *)

\* the last response answers a fetch that went through the cache
ImageFetchAnswered ==
    resp.status # 0 /\ resp.via \in {"hit", "miss", "unstored", "error"}

\* ... and an earlier fetch of the same path and options missed, transformed
\* and stored, and its entry was no older than max_age at this lookup
RepeatedWithinMaxAge ==
    /\ ImageFetchAnswered
    /\ IsSome(resp.prior)
    /\ Unwrap(resp.prior).path = resp.path
    /\ Unwrap(resp.prior).options = resp.options
    /\ resp.lookedAt - Unwrap(resp.prior).at <= max_age

\* C2: after a fetch that missed, transformed and stored, every later fetch of
\* the same path and options made while that entry is no older than max_age
\* returns the same body and content type as that fetch, from the cache and
\* without invoking optimize_image.
C2_RepeatedFetchServedFromCache ==
    RepeatedWithinMaxAge
        => /\ resp.via = "hit"
           /\ resp.status = 200
           /\ resp.body = Unwrap(resp.prior).body
           /\ resp.ctype = Unwrap(resp.prior).ctype

\* a repeated fetch was answered from the cache when the entry was exactly
\* max_age old
C2_HitAtMaxAge ==
    /\ RepeatedWithinMaxAge
    /\ resp.lookedAt - Unwrap(resp.prior).at = max_age
    /\ resp.via = "hit"
    /\ resp.body = Unwrap(resp.prior).body

\* C6: when the transform succeeds on a miss and the store fails, the response
\* is still a 200 with the fresh bytes and the format's content type, and the
\* next fetch of the same path and options misses again and recomputes.
C6_StoreFailureThenRecompute ==
    ImageFetchAnswered
        => /\ resp.via = "unstored"
                => /\ resp.status = 200
                   /\ Some(resp.body) =
                         optimize_image(Unwrap(FsRead(FilePath(resp.path))),
                                        resp.options)
                   /\ resp.ctype = FormatContentType(resp.options.format, "")
           /\ resp.afterFail => resp.via \in {"miss", "unstored"}

\* C7: the cache directory is created when the cache is constructed at
\* startup, before any fetch is served, and a failure to create it never
\* occurs while a request is being handled.
C7_CacheDirCreatedAtStartup ==
    /\ (req # NoRequest \/ resp.status # 0) => cacheDirExists
    /\ spc = "panicked" => req = NoRequest

-----------------------------------------------------------------------------
(* Properties of the responses of serve_file (Spec) *)

\* the last response came from serve_file
FetchAnswered == resp.status # 0 /\ resp.via # "route"
\* the file the answered fetch named, as fs::read returned it
SourceOf(r) == FsRead(FilePath(r.path))
\* the body is a gzip member
Compressed(r) == Len(r.body) >= 2 /\ SubSeq(r.body, 1, 2) = GzipMagic
OnTransformPath(r) == r.via \in {"hit", "miss", "unstored", "error"}
ImageResource(path) ==
    get_content_type(FilePath(path))
        \in {"image/jpeg", "image/png", "image/webp", "image/gif"}
SomeEntryCached == \E k \in DOMAIN files : files[k].kind = "file"

\* C14: for every successful fetch the body is gzip-compressed if and only
\* if the fetch did not go through the image transform path, the request
\* accepted gzip, the content type is one of the compressible types and the
\* file is longer than 1024 bytes; a response of the transform path is never
\* compressed.
C14_CompressedIffEligible ==
    (FetchAnswered /\ resp.status = 200)
        => /\ Compressed(resp)
                <=> /\ ~OnTransformPath(resp)
                    /\ resp.accepts_gzip
                    /\ resp.ctype \in {"text/html", "text/css", "application/javascript",
                                       "text/javascript", "text/plain",
                                       "application/json", "application/xml"}
                    /\ Len(Unwrap(SourceOf(resp))) > 1024
           /\ Compressed(resp) => resp.body = Gzip(Unwrap(SourceOf(resp)))
           /\ (~Compressed(resp) /\ ~OnTransformPath(resp))
                => resp.body = Unwrap(SourceOf(resp))

\* the page of 1025 bytes was sent compressed
C14_PageCompressed ==
    /\ FetchAnswered /\ resp.status = 200
    /\ resp.path = PathIndex /\ resp.accepts_gzip
    /\ Compressed(resp)
    /\ Len(resp.body) < 1025

\* C15: every response declares a Content-Length equal to the number of body
\* bytes that follow the headers (the compressed length when the body is
\* compressed), and carries Content-Encoding: gzip and Vary: Accept-Encoding
\* if and only if its body is compressed.
C15_LengthAndEncodingHeaders ==
    resp.status # 0
        => /\ resp.content_length = Len(resp.body)
           /\ (resp.content_encoding = "gzip") <=> Compressed(resp)
           /\ (resp.vary = "Accept-Encoding") <=> Compressed(resp)
           /\ resp.content_encoding \in {"", "gzip"}
           /\ resp.vary \in {"", "Accept-Encoding"}

\* a compressed response declared the compressed length, not the file's
C15_CompressedLengthDeclared ==
    /\ FetchAnswered /\ Compressed(resp)
    /\ resp.content_encoding = "gzip" /\ resp.vary = "Accept-Encoding"
    /\ resp.content_length = Len(resp.body)
    /\ resp.content_length # Len(Unwrap(SourceOf(resp)))

\* C17: a fetch that fails leaves the cache as it was: a missing source file
\* gives 404, a source that does not decode gives 500 on a miss, and in both
\* cases no entry is created or overwritten; the cache directory differs after
\* a fetch only when the fetch missed and transformed successfully.
C17_FailedFetchLeavesCache ==
    FetchAnswered
        => /\ resp.status \in {403, 404, 500} => resp.cacheSame
           /\ SourceOf(resp) = None => resp.status = 404
           /\ resp.via = "error"
                => resp.status = 500 /\ Decode(Unwrap(SourceOf(resp))) = None
           /\ ~resp.cacheSame => resp.via \in {"miss", "unstored"}

\* a fetch of a file that does not decode was answered 500 while the cache
\* held an entry
C17_ProcessingFailureBesideEntry ==
    /\ FetchAnswered /\ resp.status = 500 /\ resp.via = "error"
    /\ resp.path = PathBroken
    /\ SomeEntryCached
    /\ resp.cacheSame

\* C18: a fetch of a non-image resource, or of an image without a query
\* string, never reaches the cache: no ImageCache call and no optimize_image
\* is made for it, and the cache entries and their timestamps are the same
\* after the fetch as before it.
C18_PlainFetchAvoidsCache ==
    /\ (spc \in {"new_cache", "lookup", "storing"} \/ call[Main].op # "idle")
          => ImageResource(req.path) /\ IsSome(req.query)
    /\ (FetchAnswered /\ ~(ImageResource(resp.path) /\ IsSome(resp.query)))
          => /\ resp.via \in {"plain", "missing", "forbidden"}
             /\ resp.cacheSame

\* a page fetched with a query string was served as a file while the cache
\* held an entry
C18_PageWithQueryServedPlain ==
    /\ FetchAnswered /\ resp.status = 200
    /\ resp.path = PathIndex /\ resp.query = QueryW2
    /\ resp.via = "plain" /\ resp.cacheSame
    /\ SomeEntryCached

\* C19: on the transform path the content type follows the parsed format
\* (JPEG -> image/jpeg, PNG -> image/png, WEBP -> image/webp), not the source
\* file's extension, and a hit has the content type the miss of the same
\* request had.
C19_ContentTypeFollowsFormat ==
    (FetchAnswered /\ OnTransformPath(resp) /\ resp.status = 200)
        => /\ resp.options.format.tag = "Jpeg" => resp.ctype = "image/jpeg"
           /\ resp.options.format.tag = "Png" => resp.ctype = "image/png"
           /\ resp.options.format.tag = "WebP" => resp.ctype = "image/webp"
           /\ (resp.via = "hit" /\ IsSome(resp.prior)
                 /\ Unwrap(resp.prior).path = resp.path
                 /\ Unwrap(resp.prior).options = resp.options)
                => resp.ctype = Unwrap(resp.prior).ctype

\* a cache hit of the .jpg file fetched as PNG was sent as image/png
C19_JpgFileHitAsPng ==
    /\ FetchAnswered /\ resp.via = "hit" /\ resp.status = 200
    /\ resp.path = PathPhoto
    /\ get_content_type(FilePath(resp.path)) = "image/jpeg"
    /\ resp.ctype = "image/png"
    /\ IsSome(resp.prior)

\* C20: serve_file answers 403 or reads only a file inside the public
\* directory: no response carries a file from outside it.
C20_OnlyPublicFilesServed ==
    (FetchAnswered /\ resp.status # 403 /\ IsSome(SourceOf(resp)))
        => InsidePublic(FilePath(resp.path))

-----------------------------------------------------------------------------
(* Properties of ImageOptions::from_query (SpecParse) *)

InLoop == fqpc \in {"loop", "done"}

\* the pair the last loop iteration consumed
LastKey == params[pos][1]
LastValue == params[pos][2]
IsDecimal(v) == v # <<>> /\ AllDigits(v)

\* C8: after every prefix of the pairs of every query string, a JPEG format
\* carries the quality of the top-level quality field.
C8_JpegQualityMirrorsQuality ==
    (InLoop /\ IsJpeg(opts.format)) => opts.format.q = opts.quality

\* a quality pair and then a format pair were consumed, ending in JPEG
C8_QualityThenFormat ==
    /\ InLoop /\ pos = 2
    /\ params[1][1] \in QualityKeys
    /\ params[2][1] = KeyFmt /\ params[2][2] = ValJpg
    /\ IsJpeg(opts.format) /\ opts.quality = 7

\* C9 as claimed: after a q/quality pair whose value is a decimal integer v of
\* any magnitude, quality is min(v, 100).
C9_QualityIsMinOfValueAnd100 ==
    (InLoop /\ pos >= 1 /\ LastKey \in QualityKeys /\ IsDecimal(LastValue))
        => opts.quality = Min(DecimalValue(LastValue, 0), 100)

\* C9 as amended: after a q/quality pair whose value is a decimal integer v,
\* quality is min(v, 100) when v <= 255, and is what it was before the pair
\* when v > 255 (the pair is ignored); quality is always within [0, 100].
C9_QualityClampedWithinU8 ==
    /\ InLoop => opts.quality \in 0..100
    /\ (InLoop /\ pos >= 1 /\ LastKey \in QualityKeys /\ IsDecimal(LastValue))
        => IF DecimalValue(LastValue, 0) <= 255
           THEN opts.quality = Min(DecimalValue(LastValue, 0), 100)
           ELSE opts.quality = prevOpts.quality

\* q=7 and then q=256 were consumed: quality is still 7; and q=101 gave 100
C9_OversizedValueIgnored ==
    /\ InLoop /\ pos = 2
    /\ LastKey \in QualityKeys /\ IsDecimal(LastValue)
    /\ DecimalValue(LastValue, 0) = 256
    /\ prevOpts.quality = 7 /\ opts.quality = 7

\* C10: the width and the height from_query produces are each unset or at
\* least 1; 0 never becomes a set dimension.
C10_DimensionsPositive ==
    InLoop => /\ (IsSome(opts.width) => Unwrap(opts.width) >= 1)
              /\ (IsSome(opts.height) => Unwrap(opts.height) >= 1)

\* the option a key string sets ("none" for an unknown key)
FieldOf(key) ==
    IF key \in {KeyW, KeyWidth} THEN "width"
    ELSE IF key \in {KeyH, KeyHeight} THEN "height"
    ELSE IF key \in {KeyQ, KeyQuality} THEN "quality"
    ELSE IF key = KeyFmt THEN "format"
    ELSE "none"

\* the '&'-separated pieces of the query, and the same pieces in another order
Pieces == Split(query, "&")
Orders(n) == {f \in [1..n -> 1..n] : \A i, j \in 1..n : i # j => f[i] # f[j]}
Reordered(sq, f) == [i \in 1..Len(sq) |-> sq[f[i]]]
Returned == fqpc = "done"

\* no recognized key string occurs in two pairs
NoKeyTwice ==
    \A i, j \in 1..Len(params) :
        (i # j /\ FieldOf(params[i][1]) # "none") => params[i][1] # params[j][1]

\* no option is set by two pairs (w and width both set the width, ...)
NoFieldTwice ==
    \A i, j \in 1..Len(params) :
        (i # j /\ FieldOf(params[i][1]) # "none")
            => FieldOf(params[i][1]) # FieldOf(params[j][1])

OrderIrrelevant ==
    \A f \in Orders(Len(Pieces)) : from_query(JoinAmp(Reordered(Pieces, f))) = opts

\* C11 as claimed: when no recognized key string (w, width, h, height, q,
\* quality, fmt) occurs more than once, every reordering of the pairs of the
\* query gives equal options.
C11_OrderIrrelevantForDistinctKeys == (Returned /\ NoKeyTwice) => OrderIrrelevant

\* C11 as amended: when no option is named by more than one pair (w and width
\* name the same option, as do h and height, q and quality), every reordering
\* of the pairs of the query gives equal options.
C11_OrderIrrelevantForDistinctFields == (Returned /\ NoFieldTwice) => OrderIrrelevant

\* a quality pair and a format pair, in either order, gave JPEG at quality 7
C11_QualityAndFormatCommute ==
    /\ Returned /\ NoFieldTwice /\ Len(params) = 2
    /\ params[1][1] = KeyFmt /\ params[1][2] = ValJpeg
    /\ params[2][1] \in QualityKeys
    /\ opts.format = Jpeg(7)
    /\ OrderIrrelevant

\* the pieces that have a '=' and a recognized key
RECURSIVE Recognized(_)
Recognized(ps) ==
    IF ps = <<>> THEN <<>>
    ELSE LET parts == Split(Head(ps), "=")
         IN  (IF Len(parts) >= 2 /\ FieldOf(parts[1]) # "none"
              THEN <<Head(ps)>> ELSE <<>>) \o Recognized(Tail(ps))

OptionsValues ==
    [width : {None} \cup {Some(n) : n \in 0..7},
     height : {None} \cup {Some(n) : n \in 0..7},
     quality : 0..255,
     format : {Jpeg(q) : q \in 0..255} \cup {Png, WebP}]

\* C12: from_query returns an options value for every query string; pairs
\* without '=' and pairs with unknown keys have no effect (the result equals
\* that of the query without them), and the empty query yields width unset,
\* height unset, quality 80, format JPEG(80).
C12_UnknownAndBarePairsIgnored ==
    Returned
        => /\ opts \in OptionsValues
           /\ opts = from_query(JoinAmp(Recognized(Pieces)))
           /\ query = <<>>
                => opts = [width |-> None, height |-> None, quality |-> 80,
                           format |-> Jpeg(80)]

\* a query of one ignored piece and one width pair returned that width
C12_IgnoredPieceBesideWidth ==
    /\ Returned
    /\ Len(Pieces) = 2 /\ Len(Recognized(Pieces)) = 1
    /\ Pieces[2] = KeyW
    /\ opts.width = Some(7)

-----------------------------------------------------------------------------
(* Properties of ImageOptions::cache_key (SpecKey) *)

\* C13: the cache key is a function of the resource path and the options:
\* calling cache_key again on equal inputs gives the same digest input, and
\* every input that differs in the path or in an option field gives a
\* different digest input.
C13_DigestInputInjective ==
    /\ \A i, j \in 1..Len(fnOut) : fnOut[i] = fnOut[j]
    /\ fnPc = "done"
          => \A other \in KeyInputs :
                other # fnIn => DigestInput(other.options, other.path) # fnOut[1]

\* cache_key was called twice on a path that continues another drawn path
C13_KeyOfContinuedPath ==
    /\ fnPc = "done" /\ Len(fnOut) = 2
    /\ fnIn.path = <<"/", "a", "w", "N", "o", "n", "e">>
    /\ fnIn.options.width = None
    /\ fnIn.options.format = Png

-----------------------------------------------------------------------------
(* Properties of optimize_image (SpecImage) *)

\* C16: for a decodable sw x sh image the output of optimize_image is
\* exactly w x h when both are given, w x trunc(sh * w / sw) when only the
\* width is given, trunc(sw * h / sh) x h when only the height is given, and
\* sw x sh when neither is given.
C16_OutputDimensions ==
    (fnPc = "done" /\ IsSome(Decode(fnIn.img_data)))
        => LET sw == fnIn.img_data[2]
               sh == fnIn.img_data[3]
               w == fnIn.options.width
               h == fnIn.options.height
           IN  /\ IsSome(fnOut)
               /\ DimsOf(Unwrap(fnOut)) =
                     IF IsSome(w) /\ IsSome(h) THEN <<Unwrap(w), Unwrap(h)>>
                     ELSE IF IsSome(w)
                     THEN <<Unwrap(w), (sh * Unwrap(w)) \div sw>>
                     ELSE IF IsSome(h)
                     THEN <<(sw * Unwrap(h)) \div sh, Unwrap(h)>>
                     ELSE <<sw, sh>>

====
